---- MODULE Spec2Model ----
(***************************************************************************)
(* Turtle's Adventure (src/turtle_adventure.py): the session state, the    *)
(* per-tick update of the player and of every enemy variant, the turret    *)
(* and its bullets, and the enemy generator with its recurring spawn       *)
(* callback.                                                               *)
(*                                                                         *)
(* Positions are fixed-point numbers: one pixel is Scale units, so that    *)
(* the fractional speeds of the source (a bullet's 1.8 pixel sub-step, a   *)
(* homing enemy's 3.8 pixel step) are integers.  A speed is split along a  *)
(* direction (dx, dy) as speed*|dx|/dist and speed*|dy|/dist, which is     *)
(* what speed*cos(atan(|dy|/|dx|)) and speed*sin(atan(|dy|/|dx|)) compute; *)
(* the split is exact on axis-aligned and 3-4-5 directions and truncated   *)
(* to 1/Scale pixel elsewhere.                                             *)
(***************************************************************************)
EXTENDS Integers, Sequences, FiniteSets, TLC

\* ------------------------------------------------------------ bounds
\* units per pixel
Scale == 100
\* construction-time configuration of the session: field width and height
ScreenWidth == 240
ScreenHeight == 200
\* ticks explored in the session, turret, patrol and bouncing specifications
MaxTicks == 30
MaxTurretTicks == 50
MaxPatrolTicks == 140
MaxBounceTicks == 100
\* spawn_more callbacks explored
MaxSpawns == 1
\* updates of the enemy drawn next to the player
MaxHitTicks == 1
\* levels a session is constructed with, and ticks explored after it
MaxLevel == 2
MaxPopulationTicks == 2
\* updates of an enemy spawned below the player
MaxHomingTicks == 30

\* ------------------------------------------------- program constants
HomeSize == 20
PlayerSpeed == 5
HitRadius == 7
SafeDistance == 100
MinEnemySize == 15
MaxEnemySize == 30
BouncingSpeed == 5
BulletSize == 5
BulletVelocity == 18
BulletSubSteps == 10
TimerIncrement == 33
FireRateTenths == 13

\* ------------------------------------------------------- arithmetic
Abs(a) == IF a < 0 THEN -a ELSE a

\* Newton's descent from x >= sqrt(n), x > 0, to the floor of sqrt(n); each
\* iterate is bound as a value, so that it is computed once
RECURSIVE SqrtDescend(_, _)
SqrtDescend(n, x) ==
    CHOOSE r \in {IF y < x THEN SqrtDescend(n, y) ELSE x :
                     y \in {(x + n \div x) \div 2}} : TRUE

\* math.sqrt(dx**2 + dy**2), truncated to a unit
Distance(dx, dy) ==
    IF dx = 0 /\ dy = 0 THEN 0
    ELSE SqrtDescend(dx * dx + dy * dy, Abs(dx) + Abs(dy))

\* speed*cos(atan(|dy|/|dx|)): the share of `speed` along an offset of
\* magnitude `d` on one axis, when the whole offset is (dx, dy) # (0, 0)
Component(speed, d, dx, dy) == (speed * Abs(d)) \div Distance(dx, dy)

\* a signed quantity divided by k as the source's float division does it,
\* truncated toward zero
DivTrunc(v, k) == IF v < 0 THEN -((-v) \div k) ELSE v \div k

\* the field, as winfo_width() and winfo_height() report it
FieldWidth == ScreenWidth * Scale
FieldHeight == ScreenHeight * Scale

\* ------------------------------------------------------------- Home
\* Home(self, (self.screen_width-100, self.screen_height//2), 20)
HomeX == (ScreenWidth - 100) * Scale
HomeY == (ScreenHeight \div 2) * Scale

\* Home.contains with the top edge left out
HomeContainsOpenTop(x, y) ==
    /\ 2 * HomeX - HomeSize * Scale <= 2 * x
    /\ 2 * x <= 2 * HomeX + HomeSize * Scale
    /\ 2 * HomeY - HomeSize * Scale < 2 * y
    /\ 2 * y <= 2 * HomeY + HomeSize * Scale

\* Home.contains: x1 <= x <= x2 and y1 <= y <= y2, with x1, x2 = x -+ size/2
\* (both sides doubled, since size/2 need not be whole)
HomeContains(x, y) ==
    /\ 2 * HomeX - HomeSize * Scale <= 2 * x
    /\ 2 * x <= 2 * HomeX + HomeSize * Scale
    /\ 2 * HomeY - HomeSize * Scale <= 2 * y
    /\ 2 * y <= 2 * HomeY + HomeSize * Scale

\* CampingEnemy.multiplier = (home.size/2)*5
Multiplier == (HomeSize * 5 * Scale) \div 2

\* ----------------------------------------------------------- session
\* The session record g = [running, banners] is what stop() and the two
\* game_over methods change: the tick loop's flag and the texts created on
\* the canvas, in the order of their creation.

\* Game.stop(): halts the tick loop
Stop(g) == [g EXCEPT !.running = FALSE]

\* game_over_win without its self.stop()
GameOverWinNoStop(g) == [g EXCEPT !.banners = Append(@, "You Win")]

GameOverWin(g) == [Stop(g) EXCEPT !.banners = Append(@, "You Win")]

GameOverLose(g) == [Stop(g) EXCEPT !.banners = Append(@, "You Lose")]

\* ---------------------------------------------------------- Waypoint
WaypointActivate(w, x, y) == [w EXCEPT !.active = TRUE, !.x = x, !.y = y]

WaypointDeactivate(w) == [w EXCEPT !.active = FALSE]

\* ------------------------------------------------------------ Player
\* turtle.setheading(turtle.towards(wx, wy)); turtle.forward(speed):
\* towards() of the turtle's own position is heading 0, along +x
PlayerForward(p, w) ==
    LET dx == w.x - p.x
        dy == w.y - p.y
        s  == PlayerSpeed * Scale
    IN  IF dx = 0 /\ dy = 0 THEN [p EXCEPT !.x = @ + s]
        ELSE [p EXCEPT
                !.x = @ + (IF dx < 0 THEN -1 ELSE 1) * Component(s, dx, dx, dy),
                !.y = @ + (IF dy < 0 THEN -1 ELSE 1) * Component(s, dy, dx, dy)]

\* the arrival test passing only on the waypoint itself
WithinSpeedOnTarget(p, w) == w.x = p.x /\ w.y = p.y

\* turtle.distance(wx, wy) < self.speed
WithinSpeed(p, w) ==
    (w.x - p.x) * (w.x - p.x) + (w.y - p.y) * (w.y - p.y)
        < (PlayerSpeed * Scale) * (PlayerSpeed * Scale)

\* Player.update steering whether or not the waypoint is active
PlayerUpdateAlwaysSteer(st) ==
    LET g1 == IF HomeContains(st.p.x, st.p.y) THEN GameOverWin(st.g) ELSE st.g
        p1 == PlayerForward(st.p, st.w)
    IN  [p |-> p1,
         w |-> IF WithinSpeed(p1, st.w) THEN WaypointDeactivate(st.w) ELSE st.w,
         g |-> g1]

\* Player.update with the arrival test made before the move
PlayerUpdateTestFirst(st) ==
    LET g1 == IF HomeContains(st.p.x, st.p.y) THEN GameOverWin(st.g) ELSE st.g
    IN  IF st.w.active
        THEN [p |-> PlayerForward(st.p, st.w),
              w |-> IF WithinSpeed(st.p, st.w) THEN WaypointDeactivate(st.w)
                                               ELSE st.w,
              g |-> g1]
        ELSE [p |-> st.p, w |-> st.w, g |-> g1]

\* Player.update on the state [p, w, g]: the win check does not return, so
\* the steering below it runs in the same update
PlayerUpdate(st) ==
    LET g1 == IF HomeContains(st.p.x, st.p.y) THEN GameOverWin(st.g) ELSE st.g
    IN  IF st.w.active
        THEN LET p1 == PlayerForward(st.p, st.w)
             IN  [p |-> p1,
                  w |-> IF WithinSpeed(p1, st.w) THEN WaypointDeactivate(st.w)
                                                 ELSE st.w,
                  g |-> g1]
        ELSE [p |-> st.p, w |-> st.w, g |-> g1]

\* ------------------------------------------------------------- Enemy
\* An enemy is a record: kind, x, y, size, xstate and ystate (the bound
\* movement method of each axis; a Camping enemy's single state is xstate),
\* xspeed and yspeed (Bouncing, Bullet; a Camping enemy's speed is xspeed),
\* timer (Turret), and n, the number of its updates so far.

\* hits_player with the first comparison strict
HitsPlayerStrictLeft(e, p) ==
    \/ /\ 2 * e.x - e.size * Scale < 2 * p.x
       /\ 2 * p.x <= 2 * e.x + e.size * Scale
       /\ 2 * e.y - e.size * Scale <= 2 * p.y
       /\ 2 * p.y <= 2 * e.y + e.size * Scale
    \/ /\ p.x - HitRadius * Scale <= e.x
       /\ e.x <= p.x + HitRadius * Scale
       /\ p.y - HitRadius * Scale <= e.y
       /\ e.y <= p.y + HitRadius * Scale

\* Enemy.hits_player, size/2 doubled away
HitsPlayer(e, p) ==
    \/ /\ 2 * e.x - e.size * Scale <= 2 * p.x
       /\ 2 * p.x <= 2 * e.x + e.size * Scale
       /\ 2 * e.y - e.size * Scale <= 2 * p.y
       /\ 2 * p.y <= 2 * e.y + e.size * Scale
    \/ /\ p.x - HitRadius * Scale <= e.x
       /\ e.x <= p.x + HitRadius * Scale
       /\ p.y - HitRadius * Scale <= e.y
       /\ e.y <= p.y + HitRadius * Scale

\* the tail of every update(): if self.hits_player(): self.game.game_over_lose()
CheckHit(e, g, p) == IF HitsPlayer(e, p) THEN GameOverLose(g) ELSE g

\* what an update hands back: the enemy, the session, whether the enemy
\* asked delete_element for itself, and the elements it added
Updated(e, g) == [e |-> [e EXCEPT !.n = @ + 1], g |-> g, del |-> FALSE, spawn |-> <<>>]

\* ---------------------------------------------------- RandomMovingEnemy
\* the ranges of random.randrange on one axis, by the branch taken
JitterOk(c, max, j) ==
    IF c <= 0 THEN 0 <= j /\ j < 15 * Scale
    ELSE IF c >= max THEN -15 * Scale <= j /\ j < 0
    ELSE -15 * Scale <= j /\ j < 15 * Scale

RandomMovingUpdate(e, g, p, j) ==
    LET e1 == [e EXCEPT !.x = @ + j[1], !.y = @ + j[2]]
    IN  Updated(e1, CheckHit(e1, g, p))

\* -------------------------------------------------------- BouncingEnemy
BouncingMoveX(e) ==
    IF e.xstate = "moving_right"
    THEN LET x1 == e.x + e.xspeed
         IN  [e EXCEPT !.x = x1,
                       !.xstate = IF x1 >= FieldWidth THEN "moving_left" ELSE @]
    ELSE LET x1 == e.x - e.xspeed
         IN  [e EXCEPT !.x = x1,
                       !.xstate = IF x1 <= 0 THEN "moving_right" ELSE @]

\* moving_down / moving_up with the border itself not counted as reached
BouncingMoveYStrict(e) ==
    IF e.ystate = "moving_down"
    THEN LET y1 == e.y + e.yspeed
         IN  [e EXCEPT !.y = y1,
                       !.ystate = IF y1 > FieldHeight THEN "moving_up" ELSE @]
    ELSE LET y1 == e.y - e.yspeed
         IN  [e EXCEPT !.y = y1,
                       !.ystate = IF y1 < 0 THEN "moving_down" ELSE @]

BouncingMoveY(e) ==
    IF e.ystate = "moving_down"
    THEN LET y1 == e.y + e.yspeed
         IN  [e EXCEPT !.y = y1,
                       !.ystate = IF y1 >= FieldHeight THEN "moving_up" ELSE @]
    ELSE LET y1 == e.y - e.yspeed
         IN  [e EXCEPT !.y = y1,
                       !.ystate = IF y1 <= 0 THEN "moving_down" ELSE @]

BouncingUpdate(e, g, p) ==
    LET e1 == BouncingMoveY(BouncingMoveX(e))
    IN  Updated(e1, CheckHit(e1, g, p))

\* ---------------------------------------------------------- HomingEnemy
\* HomingEnemy(speed=3.8)
HomingSpeed == (38 * Scale) \div 10

HomingMoveX(e, p) ==
    LET dx == p.x - e.x
        dy == p.y - e.y
        step == IF dx = 0 THEN 0 ELSE Component(HomingSpeed, dx, dx, dy)
    IN  IF e.xstate = "moving_right"
        THEN LET x1 == e.x + step
             IN  [e EXCEPT !.x = x1,
                           !.xstate = IF p.x <= x1 THEN "moving_left" ELSE @]
        ELSE LET x1 == e.x - step
             IN  [e EXCEPT !.x = x1,
                           !.xstate = IF p.x >= x1 THEN "moving_right" ELSE @]

\* moving_down / moving_up standing still when player.x - self.x == 0
HomingMoveYAxisStill(e, p) ==
    LET dx == p.x - e.x
        dy == p.y - e.y
        step == IF dx = 0 THEN 0 ELSE Component(HomingSpeed, dy, dx, dy)
    IN  IF e.ystate = "moving_down"
        THEN LET y1 == e.y + step
             IN  [e EXCEPT !.y = y1,
                           !.ystate = IF p.y <= y1 THEN "moving_up" ELSE @]
        ELSE LET y1 == e.y - step
             IN  [e EXCEPT !.y = y1,
                           !.ystate = IF p.y >= y1 THEN "moving_down" ELSE @]

HomingMoveY(e, p) ==
    LET dx == p.x - e.x
        dy == p.y - e.y
        step == IF dx = 0 THEN HomingSpeed ELSE Component(HomingSpeed, dy, dx, dy)
    IN  IF e.ystate = "moving_down"
        THEN LET y1 == e.y + step
             IN  [e EXCEPT !.y = y1,
                           !.ystate = IF p.y <= y1 THEN "moving_up" ELSE @]
        ELSE LET y1 == e.y - step
             IN  [e EXCEPT !.y = y1,
                           !.ystate = IF p.y >= y1 THEN "moving_down" ELSE @]

HomingUpdate(e, g, p) ==
    LET e1 == HomingMoveY(HomingMoveX(e, p), p)
    IN  Updated(e1, CheckHit(e1, g, p))

\* --------------------------------------------------------- CampingEnemy
\* CampingEnemy.moving_right without the snap to the corner
CampingRightNoSnap(e) ==
    IF e.x + e.xspeed >= HomeX + Multiplier
    THEN [e EXCEPT !.x = @ + e.xspeed, !.xstate = "moving_down"]
    ELSE [e EXCEPT !.x = @ + e.xspeed]

CampingRight(e) ==
    IF e.x + e.xspeed >= HomeX + Multiplier
    THEN [e EXCEPT !.x = HomeX + Multiplier, !.y = HomeY - Multiplier,
                   !.xstate = "moving_down"]
    ELSE [e EXCEPT !.x = @ + e.xspeed]

CampingLeft(e) ==
    IF e.x - e.xspeed <= HomeX - Multiplier
    THEN [e EXCEPT !.x = HomeX - Multiplier, !.y = HomeY + Multiplier,
                   !.xstate = "moving_up"]
    ELSE [e EXCEPT !.x = @ - e.xspeed]

CampingDown(e) ==
    IF e.y + e.xspeed >= HomeY + Multiplier
    THEN [e EXCEPT !.x = HomeX + Multiplier, !.y = HomeY + Multiplier,
                   !.xstate = "moving_left"]
    ELSE [e EXCEPT !.y = @ + e.xspeed]

CampingUp(e) ==
    IF e.y - e.xspeed <= HomeY - Multiplier
    THEN [e EXCEPT !.x = HomeX - Multiplier, !.y = HomeY - Multiplier,
                   !.xstate = "moving_right"]
    ELSE [e EXCEPT !.y = @ - e.xspeed]

\* self.__state()
CampingMove(e) ==
    CASE e.xstate = "moving_right" -> CampingRight(e)
      [] e.xstate = "moving_left" -> CampingLeft(e)
      [] e.xstate = "moving_down" -> CampingDown(e)
      [] OTHER -> CampingUp(e)

CampingUpdate(e, g, p) ==
    LET e1 == CampingMove(e)
    IN  Updated(e1, CheckHit(e1, g, p))

\* ---------------------------------------------------------- GameElement
\* a new element, at the position it has before its creator places it
NewElement(kind, size) ==
    [kind |-> kind, x |-> 0, y |-> 0, size |-> size,
     xstate |-> "none", ystate |-> "none", xspeed |-> 0, yspeed |-> 0,
     timer |-> 0, n |-> 0]

\* --------------------------------------------------------------- Bullet
\* Bullet.__init__ giving the bullet no velocity
NewBulletAtRest(p, cx, cy) == NewElement("Bullet", BulletSize)

\* Bullet.__init__: the velocity toward the player, from `coordinate`
NewBullet(p, cx, cy) ==
    LET dx == p.x - cx
        dy == p.y - cy
        v  == BulletVelocity * Scale
        ys == IF dx = 0 THEN v ELSE Component(v, dy, dx, dy)
        xs == IF dx = 0 THEN 0 ELSE Component(v, dx, dx, dy)
    IN  [NewElement("Bullet", BulletSize) EXCEPT
            !.xspeed = IF cx >= p.x THEN -xs ELSE xs,
            !.yspeed = IF cy >= p.y THEN -ys ELSE ys]

\* Bullet.hits_border
HitsBorder(e) ==
    e.x <= 0 \/ e.x >= FieldWidth \/ e.y <= 0 \/ e.y >= FieldHeight

\* the body of `for _ in range(10)`, k sub-steps still to run
RECURSIVE BulletSubStep(_, _, _, _)
BulletSubStep(e, g, p, k) ==
    IF k = 0 THEN [e |-> e, g |-> g]
    ELSE LET e1 == [e EXCEPT !.x = @ + DivTrunc(e.xspeed, BulletSubSteps),
                             !.y = @ + DivTrunc(e.yspeed, BulletSubSteps)]
         IN  BulletSubStep(e1, CheckHit(e1, g, p), p, k - 1)

\* Bullet.update without the hits_border test
BulletUpdateNoDelete(e, g, p) ==
    LET r == BulletSubStep(e, g, p, BulletSubSteps)
    IN  Updated(r.e, r.g)

BulletUpdate(e, g, p) ==
    LET r == BulletSubStep(e, g, p, BulletSubSteps)
    IN  [Updated(r.e, r.g) EXCEPT !.del = HitsBorder(r.e)]

\* --------------------------------------------------------------- Turret
\* self.__timer >= self.__fire_rate, where fire_rate = (1/1.3)*1000
TimerExpired(timer) == timer * FireRateTenths >= 1000 * 10

\* Turret.shoot without `self.__timer = 0`
TurretShootNoReset(e, p) ==
    LET t == e.timer + TimerIncrement
    IN  IF TimerExpired(t)
        THEN [e |-> [e EXCEPT !.timer = t],
              spawn |-> <<[NewBullet(p, e.x, e.y) EXCEPT !.x = e.x, !.y = e.y]>>]
        ELSE [e |-> [e EXCEPT !.timer = t], spawn |-> <<>>]

\* Turret.shoot
TurretShoot(e, p) ==
    LET t == e.timer + TimerIncrement
    IN  IF TimerExpired(t)
        THEN [e |-> [e EXCEPT !.timer = 0],
              spawn |-> <<[NewBullet(p, e.x, e.y) EXCEPT !.x = e.x, !.y = e.y]>>]
        ELSE [e |-> [e EXCEPT !.timer = t], spawn |-> <<>>]

TurretUpdate(e, g, p) ==
    LET r == TurretShoot(e, p)
    IN  [Updated(r.e, CheckHit(r.e, g, p)) EXCEPT !.spawn = r.spawn]

\* ------------------------------------------------------- EnemyGenerator
Archetypes == {"RandomMoving", "Homing", "Camping", "Bouncing", "Turret"}

\* the constructors of the five archetypes; cs is CampingEnemy's default
\* speed, drawn once when the class is defined
NewEnemy(kind, size, p, cs) ==
    CASE kind = "Bouncing" ->
           [NewElement(kind, size) EXCEPT
               !.xspeed = BouncingSpeed * Scale, !.yspeed = BouncingSpeed * Scale,
               !.xstate = "moving_right", !.ystate = "moving_down"]
      [] kind = "Homing" ->
           [NewElement(kind, size) EXCEPT
               !.xstate = IF p.x <= 0 THEN "moving_left" ELSE "moving_right",
               !.ystate = IF p.y <= 0 THEN "moving_up" ELSE "moving_down"]
      [] kind = "Camping" ->
           [NewElement(kind, size) EXCEPT
               !.xspeed = cs * Scale, !.xstate = "moving_right"]
      [] OTHER -> NewElement(kind, size)

SafeArea(p, x, y) ==
    /\ p.x - SafeDistance * Scale <= x /\ x <= p.x + SafeDistance * Scale
    /\ p.y - SafeDistance * Scale <= y /\ y <= p.y + SafeDistance * Scale

\* the x test is around home.x, the y test around player.y
HomeArea(p, x, y) ==
    /\ HomeX - Multiplier <= x /\ x <= HomeX + Multiplier
    /\ p.y - Multiplier <= y /\ y <= p.y + Multiplier

\* random.randrange(0+int(size/2), extent-int(size/2)), in pixels
InSampleRange(size, extent, t) ==
    size \div 2 <= t /\ t < extent - size \div 2

\* the placement loop with the home_area test left out
AcceptedSafeOnly(p, size, tx, ty) ==
    /\ InSampleRange(size, ScreenWidth, tx)
    /\ InSampleRange(size, ScreenHeight, ty)
    /\ ~SafeArea(p, tx * Scale, ty * Scale)

\* the candidate (tx, ty), in pixels, ends the `while True` loop
Accepted(p, size, tx, ty) ==
    /\ InSampleRange(size, ScreenWidth, tx)
    /\ InSampleRange(size, ScreenHeight, ty)
    /\ ~SafeArea(p, tx * Scale, ty * Scale)
    /\ ~HomeArea(p, tx * Scale, ty * Scale)

\* where create_enemy puts the enemy: c = [kind, size, tx, ty], with
\* (tx, ty) the candidate that ended the loop
Placement(c) ==
    IF c.kind = "Camping"
    THEN [x |-> HomeX - Multiplier, y |-> HomeY - Multiplier]
    ELSE [x |-> c.tx * Scale, y |-> c.ty * Scale]

CreateEnemy(c, p, cs) ==
    [NewEnemy(c.kind, c.size, p, cs) EXCEPT !.x = Placement(c).x,
                                            !.y = Placement(c).y]

\* self.__enemies, the classes in the order of the list
EnemyTypes == <<"RandomMoving", "Homing", "Camping", "Bouncing", "Turret">>

\* `for enemy_type in self.__enemies: self.create_enemy(enemy_type)`; pick[t]
\* is what random gives the call for the t-th class
RoundEnemies(pick, p, cs) ==
    [t \in 1..Len(EnemyTypes) |->
        CreateEnemy([kind |-> EnemyTypes[t], size |-> pick[t].size,
                     tx |-> pick[t].tx, ty |-> pick[t].ty], p, cs)]

\* initial_enemies with a single pass over the classes, whatever the level
InitialEnemiesOnePass(r, lv, pick, p, cs) == RoundEnemies(pick, p, cs)

\* initial_enemies: `for _ in range(self.level)`, passes r..lv
RECURSIVE InitialEnemies(_, _, _, _, _)
InitialEnemies(r, lv, pick, p, cs) ==
    IF r > lv THEN <<>>
    ELSE RoundEnemies(pick, p, cs) \o InitialEnemies(r + 1, lv, pick, p, cs)

\* range(int(self.level*1.5)+1)
SpawnCount(lv) == (lv * 3) \div 2 + 1

\* ================================================================ state
VARIABLES
    running,        \* the tick loop is scheduled (Game.start() .. Game.stop())
    banners,        \* the texts game_over_win / game_over_lose created
    player,         \* [x, y]: the turtle's position
    waypoint,       \* [x, y, active]
    enemies,        \* the enemies among the game's elements, in insertion order
    spawnPending,   \* spawn_more callbacks the timer service holds
    spawns,         \* spawn_more callbacks run so far
    level,          \* TurtleAdventureGame.level
    campSpeed       \* CampingEnemy.__init__'s default speed

vars == <<running, banners, player, waypoint, enemies, spawnPending, spawns,
          level, campSpeed>>

Session == [running |-> running, banners |-> banners]

\* init_game, and EnemyGenerator.__init__ at level 0: no initial enemy, one
\* spawn_more callback scheduled; Game.start() has scheduled the tick loop.
\* CS is the sample of CampingEnemy's default speed, random.randrange(3, 5)
Construct(CS) ==
    /\ running = TRUE
    /\ banners = <<>>
    /\ player = [x |-> 50 * Scale, y |-> (ScreenHeight \div 2) * Scale]
    /\ waypoint = [x |-> 0, y |-> 0, active |-> FALSE]
    /\ enemies = <<>>
    /\ spawnPending = 1
    /\ spawns = 0
    /\ level = 0
    /\ campSpeed \in CS

\* ---------------------------------------------------------------- tick
\* one enemy's update(), by its class; jit is the random offsets of the
\* RandomMoving enemies, by index
EnemyUpdate(e, g, p, j) ==
    CASE e.kind = "RandomMoving" -> RandomMovingUpdate(e, g, p, j)
      [] e.kind = "Bouncing" -> BouncingUpdate(e, g, p)
      [] e.kind = "Homing" -> HomingUpdate(e, g, p)
      [] e.kind = "Camping" -> CampingUpdate(e, g, p)
      [] e.kind = "Turret" -> TurretUpdate(e, g, p)
      [] OTHER -> BulletUpdate(e, g, p)

\* the tick loop over the enemies es[i..]: every element that was live when
\* the tick began is updated, in insertion order; an element added during
\* the tick takes part from the next tick on.  (The update's result r and
\* the accumulator are bound as values before the loop goes on.)
RECURSIVE UpdateEnemies(_, _, _, _, _)
UpdateEnemies(es, i, acc, p, jit) ==
    IF i > Len(es) THEN acc
    ELSE CHOOSE out \in
            {UpdateEnemies(es, i + 1, nxt, p, jit) :
                nxt \in {[kept  |-> IF r.del THEN acc.kept ELSE Append(acc.kept, r.e),
                          added |-> acc.added \o r.spawn,
                          g     |-> r.g] :
                         r \in {EnemyUpdate(es[i], acc.g, p,
                                    IF i \in DOMAIN jit THEN jit[i] ELSE <<0, 0>>)}}} : TRUE

RandomIdx == {i \in DOMAIN enemies : enemies[i].kind = "RandomMoving"}

\* one tick: Waypoint.update and Home.update do nothing, Player.update
\* runs before every enemy's (the player was added before the generator
\* was built).  `cap` bounds the updates of one enemy, J is the sample of
\* random offsets
Tick(cap, J) ==
    /\ running
    /\ \A i \in DOMAIN enemies : enemies[i].n < cap
    /\ \E jit \in [RandomIdx -> J \X J] :
         /\ \A i \in RandomIdx :
              /\ JitterOk(enemies[i].x, FieldWidth, jit[i][1])
              /\ JitterOk(enemies[i].y, FieldHeight, jit[i][2])
         /\ LET st == PlayerUpdate([p |-> player, w |-> waypoint, g |-> Session])
                r  == UpdateEnemies(enemies, 1,
                          [kept |-> <<>>, added |-> <<>>, g |-> st.g], st.p, jit)
            IN  /\ player' = st.p
                /\ waypoint' = st.w
                /\ enemies' = r.kept \o r.added
                /\ running' = r.g.running
                /\ banners' = r.g.banners
    /\ UNCHANGED <<spawnPending, spawns, level, campSpeed>>

\* ---------------------------------------------------------------- click
\* <Button-1>: self.waypoint.activate(e.x, e.y), at a point of P (pixels)
Click(P) ==
    /\ \E pt \in P : waypoint' = WaypointActivate(waypoint, pt[1] * Scale, pt[2] * Scale)
    /\ UNCHANGED <<running, banners, player, enemies, spawnPending, spawns,
                   level, campSpeed>>

\* ----------------------------------------------------------- spawn_more
\* what random gives one create_enemy call: the class, the size and the
\* candidate that ends the placement loop
Choices(K, S, X, Y) ==
    {c \in [kind : K, size : S, tx : X, ty : Y] :
        c.kind = "Camping" \/ Accepted(player, c.size, c.tx, c.ty)}

\* spawn_more scheduling two successors
SpawnMoreForked(K, S, X, Y) ==
    /\ spawnPending > 0
    /\ spawns < MaxSpawns
    /\ \E batch \in [1..SpawnCount(level) -> Choices(K, S, X, Y)] :
         enemies' = enemies \o
             [i \in 1..SpawnCount(level) |-> CreateEnemy(batch[i], player, campSpeed)]
    /\ spawnPending' = (spawnPending - 1) + 2
    /\ spawns' = spawns + 1
    /\ UNCHANGED <<running, banners, player, waypoint, level, campSpeed>>

\* EnemyGenerator.spawn_more, run by the timer service whether or not the
\* session still runs: int(level*1.5)+1 enemies, then one more callback
SpawnMore(K, S, X, Y) ==
    /\ spawnPending > 0
    /\ spawns < MaxSpawns
    /\ \E batch \in [1..SpawnCount(level) -> Choices(K, S, X, Y)] :
         enemies' = enemies \o
             [i \in 1..SpawnCount(level) |-> CreateEnemy(batch[i], player, campSpeed)]
    /\ spawnPending' = (spawnPending - 1) + 1
    /\ spawns' = spawns + 1
    /\ UNCHANGED <<running, banners, player, waypoint, level, campSpeed>>

\* ============================================================== session
\* The session: clicks on the player's row (one exactly a speed away from
\* the start, one at Home's centre), and a Turret spawned on that row, near
\* the right border or (once the player is close to Home) near the left one
SessionClicks == {<<55, ScreenHeight \div 2>>, <<ScreenWidth - 100, ScreenHeight \div 2>>}

SessionSpawn ==
    SpawnMore({"Turret"}, {MinEnemySize}, {20, ScreenWidth - 40},
              {ScreenHeight \div 2})

SessionTick == Tick(MaxTicks, {})

SessionClick == Click(SessionClicks)

Init == Construct({3})

Next == SessionTick \/ SessionClick \/ SessionSpawn

Spec == Init /\ [][Next]_vars

\* squared distance between the player and the waypoint
WaypointDistSq == (waypoint.x - player.x) * (waypoint.x - player.x)
                    + (waypoint.y - player.y) * (waypoint.y - player.y)

GameOverCalled == Len(banners) > 0

\* C1: once game_over_win() or game_over_lose() has been called, no later
\* tick moves anything: the player and every enemy and bullet of the
\* collection keep their positions in every step that follows
TerminalFreeze ==
    [][GameOverCalled =>
         /\ player' = player
         /\ Len(enemies') >= Len(enemies)
         /\ \A i \in DOMAIN enemies :
              /\ enemies'[i].kind = enemies[i].kind
              /\ enemies'[i].x = enemies[i].x
              /\ enemies'[i].y = enemies[i].y]_vars

\* the session is over with a turret and one of its bullets in the collection
TerminalFreezeWitness ==
    /\ GameOverCalled
    /\ ~running
    /\ \E i \in DOMAIN enemies : enemies[i].kind = "Bullet" /\ enemies[i].n > 0
    /\ \E i \in DOMAIN enemies : enemies[i].kind = "Turret" /\ enemies[i].n > 0

\* C2: after the session has reached a terminal state, a spawn_more
\* callback adds no enemy to the collection and the recurring spawn stops
SpawnStopsAtGameOver ==
    [][GameOverCalled => (enemies' = enemies /\ spawns' = spawns)]_vars

\* C3: a second call of game_over_win() / game_over_lose() has no further
\* effect, so at most one terminal banner is ever on the display
SingleBanner == Len(banners) <= 1

\* C4: an update of the player that starts inside Home signals the win and
\* stops: it leaves the player's position and the waypoint's active flag
\* as they were (the step that adds "You Win" is that update's tick)
WinUpdateFrame ==
    [][(HomeContains(player.x, player.y) /\ Len(banners') > Len(banners)) =>
         (player' = player /\ waypoint'.active = waypoint.active)]_vars

\* C5: with the waypoint active and the player exactly a speed away from
\* it, the tick that moves the player deactivates the waypoint; and while
\* the waypoint stays inactive (no click activates it) the player's
\* position does not change
WaypointArrival ==
    [][/\ (/\ waypoint.active
           /\ WaypointDistSq = (PlayerSpeed * Scale) * (PlayerSpeed * Scale)
           /\ player' # player) => ~waypoint'.active
       /\ (~waypoint.active /\ ~waypoint'.active) => player' = player]_vars

\* the player has arrived: it stands on the waypoint it walked to, which
\* is inactive
WaypointArrivalWitness ==
    /\ ~waypoint.active
    /\ player.x = waypoint.x
    /\ player.y = waypoint.y

\* C12: an inactive waypoint never steers the player: a step that starts
\* with the waypoint inactive leaves the player where it is, and the only
\* step that makes the waypoint active is a click's activate(x, y), which
\* changes nothing but the waypoint
InactiveNeverSteers ==
    [][/\ ~waypoint.active => player' = player
       /\ (~waypoint.active /\ waypoint'.active) =>
            /\ \E pt \in SessionClicks :
                  waypoint' = WaypointActivate(waypoint, pt[1] * Scale, pt[2] * Scale)
            /\ UNCHANGED <<running, banners, player, enemies>>]_vars

\* the waypoint is inactive again after an arrival, and the session has
\* gone on for ticks in which an enemy was updated and the player stood
InactiveNeverSteersWitness ==
    /\ running
    /\ ~waypoint.active
    /\ player.x = 55 * Scale
    /\ \E i \in DOMAIN enemies : enemies[i].n >= 2

\* C20: the two terminal outcomes exclude each other: game_over_win() and
\* game_over_lose() are never both called in one session
WinLoseExclusive ==
    ~(/\ \E i \in DOMAIN banners : banners[i] = "You Win"
      /\ \E i \in DOMAIN banners : banners[i] = "You Lose")

\* C23: the spawn chain never forks: the generator schedules one
\* spawn_more callback at construction and every spawn_more that runs
\* schedules one successor, so exactly one callback is pending between
\* any two steps, never more
SinglePendingSpawn == spawnPending = 1

\* a spawn_more callback has run and added its enemy, which has since been
\* updated, and one callback is pending
SinglePendingSpawnWitness ==
    /\ spawns >= 1
    /\ spawnPending = 1
    /\ \E i \in DOMAIN enemies : enemies[i].n > 0

\* =============================================================== turret
\* A Turret spawned on the player's row, and a player who can walk down the
\* left edge of the field: a bullet is aimed where the player was when it
\* was fired, so a walking player outlives the turret's first shots
TurretClicks == {<<50, ScreenHeight - 10>>}

TurretSpawn ==
    SpawnMore({"Turret"}, {MinEnemySize}, {ScreenWidth - 40}, {ScreenHeight \div 2})

TurretTick == Tick(MaxTurretTicks, {})

TurretClick == Click(TurretClicks)

TurretNext == TurretTick \/ TurretClick \/ TurretSpawn

SpecTurret == Init /\ [][TurretNext]_vars

Turrets == {i \in DOMAIN enemies : enemies[i].kind = "Turret"}

Bullets == {i \in DOMAIN enemies : enemies[i].kind = "Bullet"}

\* C6: a Turret (fire_rate 1.3, timer increment 33) adds a Bullet on its
\* 24th update and on every 24th update after it and on no other: its
\* timer is 33 times the updates since the last multiple of 24 (so 0 right
\* after a firing), and the bullets not yet updated, which are those added
\* in the last tick, are as many as the turrets whose update count is a
\* positive multiple of 24
TurretCadence ==
    /\ \A i \in Turrets : enemies[i].timer = TimerIncrement * (enemies[i].n % 24)
    /\ Cardinality({i \in Bullets : enemies[i].n = 0})
         = Cardinality({i \in Turrets : enemies[i].n > 0 /\ enemies[i].n % 24 = 0})

\* a turret has just fired for the second time, on its 48th update
TurretCadenceWitness ==
    \E i \in Turrets :
        /\ enemies[i].n = 48
        /\ enemies[i].timer = 0
        /\ \E b \in Bullets : enemies[b].n = 0

\* the position a bullet has at the end of its next update
BulletEnd(e) ==
    [x |-> e.x + BulletSubSteps * DivTrunc(e.xspeed, BulletSubSteps),
     y |-> e.y + BulletSubSteps * DivTrunc(e.yspeed, BulletSubSteps)]

StrictlyInside(pt) ==
    0 < pt.x /\ pt.x < ScreenWidth * Scale /\ 0 < pt.y /\ pt.y < ScreenHeight * Scale

\* C18: a Bullet whose update ends on or outside the field border (x <= 0,
\* x >= width, y <= 0 or y >= height) is removed from the collection by that
\* update and a bullet that ends strictly inside is not: after a tick the
\* updated bullets of the collection are as many as the bullets that were to
\* end strictly inside, and every one of them lies strictly inside the
\* field; a bullet whose update ends exactly on x = 0 is removed
BulletLeavesAtBorder ==
    [][/\ \A i \in DOMAIN enemies' :
            (enemies'[i].kind = "Bullet" /\ enemies'[i].n > 0) =>
                StrictlyInside(enemies'[i])
       /\ (enemies # <<>> /\ enemies' # <<>> /\ enemies'[1].n = enemies[1].n + 1) =>
            Cardinality({i \in DOMAIN enemies' :
                            enemies'[i].kind = "Bullet" /\ enemies'[i].n > 0})
              = Cardinality({i \in Bullets : StrictlyInside(BulletEnd(enemies[i]))})
       /\ LET step == BulletSubSteps * DivTrunc(BulletVelocity * Scale, BulletSubSteps)
               b == [NewBullet([x |-> 0, y |-> HomeY], step, HomeY)
                        EXCEPT !.x = step, !.y = HomeY]
           IN  /\ BulletUpdate(b, Session, player).e.x = 0
               /\ BulletUpdate(b, Session, player).del
      ]_vars

\* the turret's first bullet has flown out of the field and is gone from the
\* collection, before the second is fired, and the session still runs
BulletLeavesAtBorderWitness ==
    /\ running
    /\ Bullets = {}
    /\ \E i \in Turrets : enemies[i].n > 24 /\ enemies[i].n < 48

\* updates in which a bullet crosses the longer side of the field: the
\* greater component of its velocity is at least 0.7 of its speed
LifeBound ==
    ((IF ScreenWidth > ScreenHeight THEN ScreenWidth ELSE ScreenHeight) * 10)
        \div (BulletVelocity * 7) + 1

\* C22: every Bullet has a finite lifetime: its velocity, fixed when the
\* turret adds it, is not the zero vector (every update moves it, by its
\* speed up to rounding), and no bullet is in the collection for more
\* updates than it takes to cross the field, so a bullet is removed after
\* finitely many ticks of a running session
BulletLifetime ==
    \A b \in Bullets :
        LET e == enemies[b]
            v == BulletVelocity * Scale
            sq == e.xspeed * e.xspeed + e.yspeed * e.yspeed
        IN  /\ e.xspeed # 0 \/ e.yspeed # 0
            /\ DivTrunc(e.xspeed, BulletSubSteps) # 0
                  \/ DivTrunc(e.yspeed, BulletSubSteps) # 0
            /\ (v - 2) * (v - 2) <= sq /\ sq <= (v + 2) * (v + 2)
            /\ e.n <= LifeBound

\* the first bullet is gone and the turret is one update away from firing
\* the second
BulletLifetimeWitness ==
    /\ running
    /\ Bullets = {}
    /\ \E t \in Turrets : enemies[t].n = 47

\* =============================================================== patrol
\* A Camping enemy spawned, with either default speed, and the player
\* standing at the start
PatrolInit == Construct(3..4)

PatrolSpawn ==
    SpawnMore({"Camping"}, {MinEnemySize}, {ScreenWidth - 40}, {ScreenHeight \div 2})

PatrolTick == Tick(MaxPatrolTicks, {})

PatrolNext == PatrolTick \/ PatrolSpawn

SpecPatrol == PatrolInit /\ [][PatrolNext]_vars

\* ticks a Camping enemy needs for one side of the patrol square
SideTicks == (2 * Multiplier + campSpeed * Scale - 1) \div (campSpeed * Scale)

PatrolModes == <<"moving_right", "moving_down", "moving_left", "moving_up">>

\* the corner each mode starts from, and the direction it moves in
PatrolCorner(k) ==
    CASE k = 0 -> [x |-> HomeX - Multiplier, y |-> HomeY - Multiplier]
      [] k = 1 -> [x |-> HomeX + Multiplier, y |-> HomeY - Multiplier]
      [] k = 2 -> [x |-> HomeX + Multiplier, y |-> HomeY + Multiplier]
      [] OTHER -> [x |-> HomeX - Multiplier, y |-> HomeY + Multiplier]

PatrolDir(k) ==
    CASE k = 0 -> [x |-> 1, y |-> 0]
      [] k = 1 -> [x |-> 0, y |-> 1]
      [] k = 2 -> [x |-> -1, y |-> 0]
      [] OTHER -> [x |-> 0, y |-> -1]

\* C7: a Camping enemy placed at the top-left corner walks the sides of the
\* patrol square in the order right, down, left, up: after k full sides
\* (k * SideTicks updates) it stands exactly on corner k mod 4 in the mode
\* that leaves this corner, so after 4 sides it is back on the start corner
\* in mode right; in between it is r steps of its speed along that side
PatrolCycle ==
    \A i \in DOMAIN enemies :
        enemies[i].kind = "Camping" =>
            LET e == enemies[i]
                k == (e.n \div SideTicks) % 4
                r == e.n % SideTicks
            IN  /\ e.xstate = PatrolModes[k + 1]
                /\ e.x = PatrolCorner(k).x + PatrolDir(k).x * r * campSpeed * Scale
                /\ e.y = PatrolCorner(k).y + PatrolDir(k).y * r * campSpeed * Scale

\* a Camping enemy is back on the start corner after its fourth side
PatrolCycleWitness ==
    \E i \in DOMAIN enemies :
        /\ enemies[i].kind = "Camping"
        /\ enemies[i].n = 4 * SideTicks
        /\ enemies[i].x = HomeX - Multiplier
        /\ enemies[i].y = HomeY - Multiplier
        /\ enemies[i].xstate = "moving_right"

\* ============================================================= bouncing
\* A Bouncing enemy of the least or the greatest size spawned 40 pixels
\* from the right border, 40 pixels from the bottom border or at mid-height
BounceSpawn ==
    SpawnMore({"Bouncing"}, {MinEnemySize, MaxEnemySize - 1}, {ScreenWidth - 40},
              {ScreenHeight - 40, ScreenHeight \div 2})

BounceTick == Tick(MaxBounceTicks, {})

BounceNext == BounceTick \/ BounceSpawn

SpecBounce == Init /\ [][BounceNext]_vars

\* C8: in every update of a Bouncing enemy each axis advances by its speed
\* in the direction of that axis's mode, and the mode of an axis flips
\* exactly when the new coordinate has reached the border the enemy was
\* moving to (>= width or height, <= 0); the mode of one axis depends on
\* nothing of the other axis.  At y = 0 in mode moving_up one update gives
\* mode moving_down
BounceReflection ==
    [][/\ \A i \in DOMAIN enemies :
            (enemies[i].kind = "Bouncing" /\ enemies'[i].n = enemies[i].n + 1) =>
                LET e == enemies[i]
                    f == enemies'[i]
                    v == BouncingSpeed * Scale
                IN  /\ f.x = IF e.xstate = "moving_right" THEN e.x + v ELSE e.x - v
                    /\ f.y = IF e.ystate = "moving_down" THEN e.y + v ELSE e.y - v
                    /\ f.xstate = IF e.xstate = "moving_right"
                                  THEN (IF f.x >= FieldWidth THEN "moving_left"
                                                              ELSE "moving_right")
                                  ELSE (IF f.x <= 0 THEN "moving_right"
                                                    ELSE "moving_left")
                    /\ f.ystate = IF e.ystate = "moving_down"
                                  THEN (IF f.y >= FieldHeight THEN "moving_up"
                                                               ELSE "moving_down")
                                  ELSE (IF f.y <= 0 THEN "moving_down"
                                                    ELSE "moving_up")
       /\ BouncingMoveY([NewEnemy("Bouncing", MinEnemySize, player, campSpeed)
                            EXCEPT !.ystate = "moving_up"]).ystate = "moving_down"
      ]_vars

\* a Bouncing enemy that turned on the bottom border has now reached the
\* top border, y = 0, and is turned back down
BounceReflectionWitness ==
    \E i \in DOMAIN enemies :
        /\ enemies[i].kind = "Bouncing"
        /\ enemies[i].n > 0
        /\ enemies[i].y = 0
        /\ enemies[i].ystate = "moving_down"

\* ============================================================ placement
\* The player walks up the left edge of the field (which moves the safe
\* zone and home_area's band with it) until the first enemies are placed;
\* the candidates are a grid over the field and beyond randrange's ends
PlacementClicks == {<<50, 10>>}

PlacementXs == {0, 7, 60, 120, ScreenWidth - 80, ScreenWidth - 40,
                ScreenWidth - 8, ScreenWidth - 1}

PlacementYs == {0, 7, 40, ScreenHeight \div 2, ScreenHeight - 50,
                ScreenHeight - 8, ScreenHeight - 1}

PlacementSpawn ==
    SpawnMore({"RandomMoving", "Camping"}, {MinEnemySize, MaxEnemySize - 1},
              PlacementXs, PlacementYs)

\* the ticks before the first enemy is placed
PlacementTick == Tick(0, {})

PlacementClick == Click(PlacementClicks)

PlacementNext == PlacementTick \/ PlacementClick \/ PlacementSpawn

SpecPlacement == Init /\ [][PlacementNext]_vars

\* the enemies a step has added that are of the generator's archetypes
\* other than Camping
PlacedNow(i) ==
    /\ i > Len(enemies)
    /\ enemies'[i].kind \in Archetypes \ {"Camping"}

\* C9: every non-Camping enemy the generator adds is, when added, outside
\* the safe zone (the square of half-side 100 around the player), outside
\* home_area (within the patrol half-side of home.x and of player.y) and
\* inside the field, 0 <= x < width and 0 <= y < height
PlacementOutsideZones ==
    [][\A i \in DOMAIN enemies' :
         PlacedNow(i) =>
            LET e == enemies'[i]
            IN  /\ ~(/\ Abs(e.x - player.x) <= SafeDistance * Scale
                     /\ Abs(e.y - player.y) <= SafeDistance * Scale)
                /\ ~(/\ Abs(e.x - HomeX) <= (HomeSize * 5 * Scale) \div 2
                     /\ Abs(e.y - player.y) <= (HomeSize * 5 * Scale) \div 2)
                /\ 0 <= e.x /\ e.x < ScreenWidth * Scale
                /\ 0 <= e.y /\ e.y < ScreenHeight * Scale]_vars

\* with the player walked away from the start, an enemy stands where the
\* start's safe zone would have rejected it
PlacementOutsideZonesWitness ==
    /\ player.y < 50 * Scale
    /\ \E i \in DOMAIN enemies :
         /\ enemies[i].kind = "RandomMoving"
         /\ enemies[i].x <= (50 + SafeDistance) * Scale
         /\ enemies[i].y >= (ScreenHeight \div 2) * Scale

\* C16: no enemy other than a Camping one is placed by the generator
\* inside Home's patrol square, the points within Home.size/2*5 of Home's
\* centre on both axes, wherever the player stands when it is placed
NoSpawnInPatrolSquare ==
    [][\A i \in DOMAIN enemies' :
         PlacedNow(i) =>
            ~(/\ 2 * Abs(enemies'[i].x - HomeX) <= HomeSize * 5 * Scale
              /\ 2 * Abs(enemies'[i].y - HomeY) <= HomeSize * 5 * Scale)]_vars

\* C17: no enemy the generator creates, a Camping one included, is placed
\* inside the safe zone: when it is added it is not within 100 pixels of
\* the player's position on both axes
NoSpawnInSafeZone ==
    [][\A i \in DOMAIN enemies' :
         (i > Len(enemies) /\ enemies'[i].kind \in Archetypes) =>
            ~(/\ Abs(enemies'[i].x - player'.x) <= SafeDistance * Scale
              /\ Abs(enemies'[i].y - player'.y) <= SafeDistance * Scale)]_vars

\* ================================================================= hits
\* One enemy next to the player, one tick before its update tests
\* hits_player: a RandomMoving enemy about to jitter by a pixel, a Turret
\* the player walks up to, or a Bullet flying along the player's row.  The
\* player's offset from the enemy is drawn around the edges of the two
\* squares, a unit, a pixel or a step short of them or beyond.

\* twice the offset |c - centre| fits in a square of doubled side `side2`
InSquare(ex, ey, p, side2) ==
    2 * Abs(p.x - ex) <= side2 /\ 2 * Abs(p.y - ey) <= side2

\* the player is in the square of side `size` around (ex, ey) or in the
\* square of half-side 7 around it, edges included
InHitBox(ex, ey, size, p) ==
    \/ InSquare(ex, ey, p, size * Scale)
    \/ InSquare(ex, ey, p, 2 * 7 * Scale)

HitEdges(size) == {(size * Scale) \div 2, 7 * Scale}

HitShifts == {0, Scale, PlayerSpeed * Scale, 3 * ((BulletVelocity * Scale) \div 10)}

HitOffsets(size) ==
    {0} \cup {s * (e + sh + d) : s \in {-1, 1}, e \in HitEdges(size),
                                 sh \in HitShifts, d \in {-1, 0, 1}}

HitEnemyX == (ScreenWidth - 60) * Scale
HitEnemyY == 40 * Scale

\* the enemy drawn, standing at (HitEnemyX, HitEnemyY); a Bullet is one
\* fired from there at a player then far to its left on the same row
HitEnemy(kind, size, cs) ==
    IF kind = "Bullet"
    THEN [NewBullet([x |-> 0, y |-> HitEnemyY], HitEnemyX, HitEnemyY)
             EXCEPT !.x = HitEnemyX, !.y = HitEnemyY]
    ELSE [NewEnemy(kind, size, [x |-> 0, y |-> 0], cs) EXCEPT !.x = HitEnemyX,
                                                            !.y = HitEnemyY]

HitsInit ==
    /\ running = TRUE
    /\ banners = <<>>
    /\ spawnPending = 1
    /\ spawns = 0
    /\ level = 0
    /\ campSpeed = 3
    /\ \E kind \in {"RandomMoving", "Turret", "Bullet"} :
       \E size \in IF kind = "Bullet" THEN {BulletSize}
                                      ELSE {MinEnemySize, MaxEnemySize - 1} :
       \E dx \in HitOffsets(size) :
       \E dy \in {d \in HitOffsets(size) : \E e \in HitEdges(size) : Abs(d) = e \/ d = 0} :
       \E walking \in BOOLEAN :
         /\ enemies = <<HitEnemy(kind, size, campSpeed)>>
         /\ player = [x |-> HitEnemyX + dx, y |-> HitEnemyY + dy]
         /\ ~InHitBox(HitEnemyX, HitEnemyY, size, player)
         /\ (walking => kind = "Turret")
         /\ waypoint = [x |-> player.x + PlayerSpeed * Scale, y |-> player.y,
                        active |-> walking]

HitsTick == Tick(MaxHitTicks, {-Scale, 0, Scale})

SpecHits == HitsInit /\ [][HitsTick]_vars

IsLose(b) == b = "You Lose"

LoseCalls(bs) == Len(SelectSeq(bs, IsLose))

\* the calls of game_over_lose the claim lets the one enemy's update make:
\* one for each position it tests that has the player in its hit box, the
\* ten sub-step positions for a Bullet, the position after the move else
ExpectedLoseCalls ==
    LET e == enemies[1]
    IN  IF e.kind = "Bullet"
        THEN Cardinality({k \in 1..BulletSubSteps :
                 InHitBox(e.x + k * DivTrunc(e.xspeed, BulletSubSteps),
                          e.y + k * DivTrunc(e.yspeed, BulletSubSteps),
                          e.size, player')})
        ELSE IF InHitBox(enemies'[1].x, enemies'[1].y, e.size, player') THEN 1 ELSE 0

\* C10: hits_player() is true exactly when the player is inside the
\* enemy's square of side `size` or inside the square of half-side 7
\* around its centre, edges included; so the update of the one enemy
\* calls game_over_lose once for each tested position that has the player
\* in one of the two squares, and not otherwise
HitsIffInBox ==
    [][Len(enemies) = 1 => LoseCalls(banners') - LoseCalls(banners) = ExpectedLoseCalls]_vars

\* a RandomMoving enemy has stepped so that the player stands exactly on
\* the left edge of its size square, and that counted as a hit
HitsIffInBoxWitness ==
    /\ Len(enemies) = 1
    /\ enemies[1].kind = "RandomMoving"
    /\ enemies[1].n = 1
    /\ 2 * (enemies[1].x - player.x) = enemies[1].size * Scale
    /\ LoseCalls(banners) = 1

\* C14: the loss signal stops the session at once: the update that has
\* signalled the loss does nothing more, so one update of the one enemy (a
\* Bullet's ten sub-steps included) signals the loss at most once
SingleLossSignal ==
    [][Len(enemies) = 1 => LoseCalls(banners') - LoseCalls(banners) <= 1]_vars

\* ================================================================= home
\* The player standing around Home's square, no enemy yet: on an edge or a
\* corner, a unit or a step inside or outside, with or without a waypoint
\* ahead of it
HomeOffsets ==
    {s * ((HomeSize * Scale) \div 2 + d) :
        s \in {-1, 1}, d \in {-PlayerSpeed * Scale, -1, 0, 1, PlayerSpeed * Scale}}
      \cup {0}

HomeInit ==
    /\ running = TRUE
    /\ banners = <<>>
    /\ enemies = <<>>
    /\ spawnPending = 1
    /\ spawns = 0
    /\ level = 0
    /\ campSpeed = 3
    /\ \E dx \in HomeOffsets, dy \in HomeOffsets, walking \in BOOLEAN :
         /\ player = [x |-> HomeX + dx, y |-> HomeY + dy]
         /\ waypoint = [x |-> HomeX, y |-> HomeY, active |-> walking]

HomeTick == Tick(0, {})

SpecHome == HomeInit /\ [][HomeTick]_vars

\* C11: Home.contains(x, y) is true exactly for the points of the square of
\* side `size` centred on Home, the four edges and corners included: the
\* player's update signals the win if and only if the player stands in that
\* square, and a point a unit outside an edge is not contained
HomeContainsSquare ==
    [][/\ (running /\ enemies = <<>>) =>
            ((Len(banners') = Len(banners) + 1)
                <=> InSquare(HomeX, HomeY, player, HomeSize * Scale))
       /\ \A dx \in HomeOffsets, dy \in HomeOffsets :
            HomeContains(HomeX + dx, HomeY + dy)
                <=> (2 * Abs(dx) <= HomeSize * Scale /\ 2 * Abs(dy) <= HomeSize * Scale)
      ]_vars

\* the win was signalled for a player standing on Home's top-left corner
HomeContainsSquareWitness ==
    /\ banners = <<"You Win">>
    /\ ~waypoint.active
    /\ 2 * (HomeX - player.x) = HomeSize * Scale
    /\ 2 * (HomeY - player.y) = HomeSize * Scale

\* =========================================================== population
\* A session constructed at level 1..MaxLevel: the initial population, each
\* class with the least or the greatest size (the same in every pass),
\* placed 40 pixels from the right border on the player's row; then ticks
\* in which RandomMoving enemies draw the offset (0, 0), and a spawn_more
\* that draws Bouncing enemies
PopulationPicks ==
    [1..Len(EnemyTypes) ->
        [size : {MinEnemySize, MaxEnemySize - 1}, tx : {ScreenWidth - 40},
         ty : {ScreenHeight \div 2}]]

PopulationInit ==
    /\ running = TRUE
    /\ banners = <<>>
    /\ player = [x |-> 50 * Scale, y |-> (ScreenHeight \div 2) * Scale]
    /\ waypoint = [x |-> 0, y |-> 0, active |-> FALSE]
    /\ spawnPending = 1
    /\ spawns = 0
    /\ campSpeed = 3
    /\ level \in 1..MaxLevel
    /\ \E pick \in PopulationPicks :
         /\ \A t \in DOMAIN EnemyTypes :
              \/ EnemyTypes[t] = "Camping"
              \/ Accepted(player, pick[t].size, pick[t].tx, pick[t].ty)
         /\ enemies = InitialEnemies(1, level, pick, player, campSpeed)

PopulationSpawn ==
    SpawnMore({"Bouncing"}, {MinEnemySize}, {ScreenWidth - 40}, {ScreenHeight \div 2})

PopulationTick == Tick(MaxPopulationTicks, {0})

PopulationNext == PopulationTick \/ PopulationSpawn

SpecPopulation == PopulationInit /\ [][PopulationNext]_vars

KindCount(k) == Cardinality({i \in DOMAIN enemies : enemies[i].kind = k})

\* C13: until the first timed spawn the collection holds exactly the
\* initial population of a generator of level L: 5*L enemies, L of each of
\* the five archetypes, no Bullet, every size an integer of 15..29
InitialPopulation ==
    spawns = 0 =>
        /\ Len(enemies) = 5 * level
        /\ \A k \in {"RandomMoving", "Homing", "Camping", "Bouncing", "Turret"} :
              KindCount(k) = level
        /\ KindCount("Bullet") = 0
        /\ \A i \in DOMAIN enemies :
              enemies[i].size \in Int /\ 15 <= enemies[i].size /\ enemies[i].size < 30

\* a level-2 session has ticked before its first timed spawn, with enemies
\* of both extreme sizes
InitialPopulationWitness ==
    /\ level = 2
    /\ spawns = 0
    /\ Len(enemies) = 10
    /\ \A i \in DOMAIN enemies : enemies[i].n > 0
    /\ \E i \in DOMAIN enemies : enemies[i].size = 15
    /\ \E i \in DOMAIN enemies : enemies[i].size = 29

\* =============================================================== homing
\* The player has walked up the left edge of the field to the waypoint at
\* (50, 10) and stands there; a Homing enemy or a Turret, of the least or
\* the greatest size, is placed straight below it on the player's column
HomingInit ==
    /\ running = TRUE
    /\ banners = <<>>
    /\ player = [x |-> 50 * Scale, y |-> 10 * Scale]
    /\ waypoint = [x |-> 50 * Scale, y |-> 10 * Scale, active |-> FALSE]
    /\ enemies = <<>>
    /\ spawnPending = 1
    /\ spawns = 0
    /\ level = 0
    /\ campSpeed = 3

HomingSpawn ==
    SpawnMore({"Homing", "Turret"}, {MinEnemySize, MaxEnemySize - 1}, {50},
              {ScreenHeight - 50, ScreenHeight - 40})

HomingTick == Tick(MaxHomingTicks, {})

HomingNext == HomingTick \/ HomingSpawn

SpecHoming == HomingInit /\ [][HomingNext]_vars

\* enemy i was updated by this step (no enemy leaves the collection within
\* the ticks explored, so an enemy keeps its index)
UpdatedNow(i) ==
    /\ i \in DOMAIN enemies
    /\ i \in DOMAIN enemies'
    /\ enemies'[i].kind = enemies[i].kind
    /\ enemies'[i].n = enemies[i].n + 1

\* C15: in every update of a Homing enemy, the first after it is placed
\* included, each axis moves toward the player's current position: x grows
\* only if the player is to the right and shrinks only if the player is to
\* the left, and likewise y
HomingTowardPlayer ==
    [][\A i \in DOMAIN enemies :
         (enemies[i].kind = "Homing" /\ UpdatedNow(i)) =>
            /\ enemies'[i].x > enemies[i].x => player'.x > enemies[i].x
            /\ enemies'[i].x < enemies[i].x => player'.x < enemies[i].x
            /\ enemies'[i].y > enemies[i].y => player'.y > enemies[i].y
            /\ enemies'[i].y < enemies[i].y => player'.y < enemies[i].y]_vars

\* C19: with the player's x equal to the enemy's x, a Homing enemy's
\* update leaves its x as it is and moves its y by exactly its speed, and a
\* Bullet built for a turret on the player's column has x-velocity 0 and a
\* y-velocity whose magnitude is its speed
AxisOnlyMotion ==
    [][/\ \A i \in DOMAIN enemies :
            (/\ enemies[i].kind = "Homing"
             /\ UpdatedNow(i)
             /\ player'.x = enemies[i].x) =>
                /\ enemies'[i].x = enemies[i].x
                /\ Abs(enemies'[i].y - enemies[i].y) = (38 * Scale) \div 10
       /\ \A b \in DOMAIN enemies' :
            (/\ b > Len(enemies)
             /\ enemies'[b].kind = "Bullet"
             /\ enemies'[b].x = player'.x) =>
                /\ enemies'[b].xspeed = 0
                /\ Abs(enemies'[b].yspeed) = BulletVelocity * Scale]_vars

\* a Homing enemy on the player's column has been updated more than once
\* and is still on that column, nearer to the player than it was placed
AxisOnlyMotionWitness ==
    \E i \in DOMAIN enemies :
        /\ enemies[i].kind = "Homing"
        /\ enemies[i].n > 2
        /\ enemies[i].x = player.x
        /\ player.y < enemies[i].y
        /\ enemies[i].y < (ScreenHeight - 50) * Scale
        /\ enemies[i].ystate = "moving_up"

\* ================================================================= walk
\* The click has been made and no other follows: the waypoint is active,
\* at one of a sample of pixels around the player (on it, less than a
\* step away, exactly one or two steps away, on 3-4-5 and on skew
\* directions, or at Home's centre), the player stands at the start or a
\* part of a pixel to its right, and no enemy is in the field
WalkDxs == {0, 3, 5, 10, 12, ScreenWidth - 150}

WalkDys == {-50, -4, 0, 5, 16}

WalkShifts == {0, (137 * Scale) \div 100, (5 * Scale) \div 2}

WalkInit ==
    /\ running = TRUE
    /\ banners = <<>>
    /\ enemies = <<>>
    /\ spawnPending = 1
    /\ spawns = 0
    /\ level = 0
    /\ campSpeed = 3
    /\ \E dx \in WalkDxs, dy \in WalkDys, sh \in WalkShifts :
         /\ player = [x |-> 50 * Scale + sh, y |-> (ScreenHeight \div 2) * Scale]
         /\ waypoint = [x |-> (50 + dx) * Scale,
                        y |-> (ScreenHeight \div 2 + dy) * Scale,
                        active |-> TRUE]

WalkTick == Tick(0, {})

\* the tick loop reschedules itself after every tick while the session runs
SpecWalk == WalkInit /\ [][WalkTick]_vars /\ WF_vars(WalkTick)

\* C21: with the waypoint active, the session running and no further
\* click, the waypoint is deactivated after finitely many ticks, whatever
\* the distance between player and waypoint, the distance 0 included
\* (the walk may instead end the session, at Home)
WalkEnds == waypoint.active ~> (~waypoint.active \/ ~running)

\* the walk that began with the player exactly on the waypoint is over:
\* the player stands on the waypoint at the start position again, and the
\* waypoint is inactive
WalkEndsWitness ==
    /\ running
    /\ ~waypoint.active
    /\ player = [x |-> 50 * Scale, y |-> (ScreenHeight \div 2) * Scale]
    /\ waypoint.x = player.x
    /\ waypoint.y = player.y

====
